---- MODULE Spec2Model ----
(***************************************************************************)
(* Model of the Excel-to-PDF conversion Lambda (src/src/index.ts).         *)
(*                                                                         *)
(* One execution instance owns the two fixed files /tmp/document.xlsx and  *)
(* /tmp/document.pdf.  A request slot runs handler(); every await of the   *)
(* code is a separate step of the slot.  Spec serves the requests one at a *)
(* time (the Lambda scheduling), SpecConc lets two invocations interleave  *)
(* at their await points.                                                  *)
(***************************************************************************)
EXTENDS Integers, Sequences, FiniteSets, TLC

(***************************************************************************)
(* Bounds                                                                  *)
(***************************************************************************)
\* number of requests one execution instance serves in a behaviour
MaxRequests == 3

\* request slots (invocations that may be in flight in one process)
Slots == {1, 2}

(***************************************************************************)
(* Program constants                                                       *)
(***************************************************************************)
MAX_UPLOAD_FILE_SIZE_BYTES == 18 * 1000 * 1000

MsgNoFile == "No file was uploaded or file is invalid."
MsgInvalidFormat == "Invalid file format. Please upload an Excel (.xlsx) file."
MsgProcessFailed == "Failed to process file."
MsgPdfFailed == "Failed to generate PDF file."
MsgMethodNotAllowed == "Method not allowed"
MsgInternal == "Internal server error"

\* `File size exceeds ${MAX_UPLOAD_FILE_SIZE_BYTES / 1000 / 1000}MB limit.`
MsgTooLarge ==
  "File size exceeds "
    \o ToString((MAX_UPLOAD_FILE_SIZE_BYTES \div 1000) \div 1000)
    \o "MB limit."

(***************************************************************************)
(* Strings are sequences of one-character strings, so that suffix tests    *)
(* and extension stripping are computed character by character.            *)
(***************************************************************************)
LowerOf ==
  [c \in {"A", "B", "D", "L", "Q", "S", "X"} |->
     CASE c = "A" -> "a" [] c = "B" -> "b" [] c = "D" -> "d" [] c = "L" -> "l"
       [] c = "Q" -> "q" [] c = "S" -> "s" [] c = "X" -> "x"]

\* String.prototype.toLowerCase
toLowerCase(s) ==
  [i \in 1..Len(s) |-> IF s[i] \in DOMAIN LowerOf THEN LowerOf[s[i]] ELSE s[i]]

\* String.prototype.endsWith
endsWith(s, suffix) ==
  /\ Len(suffix) <= Len(s)
  /\ SubSeq(s, Len(s) - Len(suffix) + 1, Len(s)) = suffix

DotXlsx == <<".", "x", "l", "s", "x">>
DotPdf == <<".", "p", "d", "f">>

\* index of the last occurrence of c in s, 0 when there is none
LastIndexOf(s, c) ==
  LET hits == {i \in 1..Len(s) : s[i] = c}
  IN IF hits = {} THEN 0 ELSE CHOOSE i \in hits : \A j \in hits : j <= i

\* path.parse(p).name (posix): the last path segment without its extension;
\* a dot that starts the segment does not start an extension
PathParseName(p) ==
  LET slash == LastIndexOf(p, "/")
      base == SubSeq(p, slash + 1, Len(p))
      dot == LastIndexOf(base, ".")
  IN IF dot > 1 THEN SubSeq(base, 1, dot - 1) ELSE base

\* the suffix appended to the whole uploaded name
PdfFilename_keepExt(originalFilename) == originalFilename \o DotPdf

\* `${path.parse(originalFilename).name}.pdf`
PdfFilename(originalFilename) == PathParseName(originalFilename) \o DotPdf

(***************************************************************************)
(* Inputs                                                                  *)
(***************************************************************************)
F_report_xlsx == <<"r", "e", "p", "o", "r", "t", ".", "x", "l", "s", "x">>
F_report_xls == <<"r", "e", "p", "o", "r", "t", ".", "x", "l", "s">>
F_Q1_XLSX == <<"Q", "1", ".", "X", "L", "S", "X">>
F_Q1_xlsx == <<"Q", "1", ".", "x", "l", "s", "x">>
F_xlsx_txt == <<"a", ".", "x", "l", "s", "x", ".", "t", "x", "t">>
F_document_xlsx == <<"d", "o", "c", "u", "m", "e", "n", "t", ".", "x", "l", "s", "x">>
F_dot_xlsx == <<".", "x", "l", "s", "x">>
F_uploaded_file ==
  <<"u", "p", "l", "o", "a", "d", "e", "d", "_", "f", "i", "l", "e">>
F_dir_Q1_xlsx == <<"d", "/", "Q", "1", ".", "x", "l", "s", "x">>

\* the part carries no filename="..." parameter
NoFilename == <<>>

Filenames ==
  {F_report_xlsx, F_report_xls, F_Q1_XLSX, F_xlsx_txt, F_dot_xlsx,
   F_dir_Q1_xlsx, NoFilename}

XlsxMime == "application/vnd.openxmlformats-officedocument.spreadsheetml.sheet"
Mimes == {XlsxMime, "text/plain"}

\* lengths of the Buffer the parser builds for the file part
Lengths == {10240, MAX_UPLOAD_FILE_SIZE_BYTES, MAX_UPLOAD_FILE_SIZE_BYTES + 1}

\* the byte sequences uploaded, by name; each comes in every length
Contents == {"A", "B"}

\* one piece of the body between two boundary lines
Part(name, filename, mime, len, sep, bytes) ==
  [name |-> name, filename |-> filename, mime |-> mime, len |-> len,
   sep |-> sep, bytes |-> bytes]

OtherPart == Part("comment", NoFilename, "text/plain", 5, TRUE, "hello")

\* the text part.includes looks for, as the content of a part
MentionText == "name=\"uploaded_file\""

\* a text field whose value is that text, and a part of another name whose
\* filename parameter is uploaded_file
MentionPart == Part("comment", NoFilename, "text/plain", 22, TRUE, MentionText)
NamesakePart == Part("attachment", F_uploaded_file, XlsxMime, 10240, TRUE, "A")

\* part.includes('name="uploaded_file"'): the text is searched in the whole
\* part, its headers and its content
IsFilePart(part) ==
  \/ part.name = "uploaded_file"
  \/ part.filename = F_uploaded_file
  \/ part.bytes = MentionText
NoSepPart == Part("uploaded_file", F_report_xlsx, XlsxMime, 0, FALSE, "")

FileParts ==
  {Part("uploaded_file", f, m, n, TRUE, b) :
     f \in Filenames, m \in Mimes, n \in Lengths, b \in Contents}

\* event.headers content-type, as the parser looks at it
CT_None == [present |-> FALSE, multipart |-> FALSE, boundary |-> ""]
CT_Text == [present |-> TRUE, multipart |-> FALSE, boundary |-> ""]
CT_NoBoundary == [present |-> TRUE, multipart |-> TRUE, boundary |-> ""]
CT_Multipart == [present |-> TRUE, multipart |-> TRUE, boundary |-> "X"]

Event(method, hasHeaders, ct, hasBody, parts) ==
  [httpMethod |-> method, hasHeaders |-> hasHeaders, contentType |-> ct,
   hasBody |-> hasBody, parts |-> parts]

NoEvent == Event("", FALSE, CT_None, FALSE, <<>>)

Events ==
  {Event("GET", TRUE, CT_None, FALSE, <<>>),
   Event("PUT", TRUE, CT_None, FALSE, <<>>),
   Event("POST", FALSE, CT_None, FALSE, <<>>),
   Event("POST", TRUE, CT_Multipart, FALSE, <<>>),
   Event("POST", TRUE, CT_None, TRUE, <<NoSepPart>>),
   Event("POST", TRUE, CT_Text, TRUE, <<OtherPart>>),
   Event("POST", TRUE, CT_NoBoundary, TRUE, <<OtherPart>>),
   Event("POST", TRUE, CT_Multipart, TRUE, <<OtherPart>>),
   Event("POST", TRUE, CT_Multipart, TRUE, <<NoSepPart>>),
   Event("POST", TRUE, CT_Multipart, TRUE, <<MentionPart>>),
   Event("POST", TRUE, CT_Multipart, TRUE, <<NamesakePart>>),
   Event("POST", TRUE, CT_NoBoundary, TRUE,
         <<Part("uploaded_file", F_report_xls, XlsxMime,
                MAX_UPLOAD_FILE_SIZE_BYTES + 1, TRUE, "A")>>),
   Event("GET", FALSE, CT_None, TRUE,
         <<Part("uploaded_file", F_report_xlsx, XlsxMime, 10240, TRUE, "A")>>),
   Event("DELETE", FALSE, CT_Multipart, TRUE,
         <<Part("uploaded_file", F_report_xlsx, XlsxMime, 10240, TRUE, "A")>>),
   Event("POST", TRUE, CT_Multipart, TRUE,
         <<OtherPart, Part("uploaded_file", F_Q1_xlsx, XlsxMime, 10240, TRUE, "A")>>)}
  \cup {Event("POST", TRUE, CT_Multipart, TRUE, <<p>>) : p \in FileParts}

\* the uploads two interleaved invocations are given
ConcEvents ==
  {Event("GET", TRUE, CT_None, FALSE, <<>>),
   Event("POST", TRUE, CT_Multipart, TRUE,
         <<Part("uploaded_file", F_report_xls, XlsxMime, 10240, TRUE, "A")>>),
   Event("POST", TRUE, CT_Multipart, TRUE,
         <<Part("uploaded_file", F_report_xlsx, XlsxMime, 10240, TRUE, "A")>>)}

(***************************************************************************)
(* Responses                                                               *)
(***************************************************************************)
NoFile == [exists |-> FALSE]

\* generateMainPage(error): the form, with an error block when error is truthy
generateMainPage(error) == [page |-> "main", error |-> error]

HtmlResponse(status, error) ==
  [statusCode |-> status, contentType |-> "text/html",
   body |-> generateMainPage(error)]

NoResponse == [statusCode |-> 0]

\* the catch block answering 502 for the failed converter
UploadCatch_badGateway == HtmlResponse(502, MsgProcessFailed)

\* the catch block putting the text of the caught error on the page
UploadCatch_rawError ==
  HtmlResponse(500, "Error: ENOSPC: no space left on device, write")

\* the catch block of handleFileUpload
UploadCatch == HtmlResponse(500, MsgProcessFailed)

\* the catch block of returnPdfFile
ReturnPdfCatch == HtmlResponse(500, MsgPdfFailed)

\* the success branch of returnPdfFile
PdfResponse(pdfBuffer, stats, originalFilename) ==
  [statusCode |-> 200, contentType |-> "application/pdf",
   contentLengthOf |-> stats,
   contentDisposition |-> [kind |-> "inline", filename |-> PdfFilename(originalFilename)],
   body |-> pdfBuffer, isBase64Encoded |-> TRUE]

(***************************************************************************)
(* parseMultipartFormData                                                  *)
(***************************************************************************)
NullFile == [file |-> [isNull |-> TRUE, len |-> 0], filename |-> <<>>]

RECURSIVE ScanParts(_)
\* the for loop over the parts of the body
ScanParts(parts) ==
  IF parts = <<>> THEN NullFile
  ELSE LET part == Head(parts)
       IN IF IsFilePart(part) /\ part.sep
          THEN [file |-> [isNull |-> FALSE, len |-> part.len],
                filename |-> IF part.filename = NoFilename
                             THEN F_document_xlsx ELSE part.filename]
          ELSE ScanParts(Tail(parts))

\* reading event.headers["content-type"] of a null headers object throws
ParseThrows(ev) == ~ev.hasHeaders

parseMultipartFormData(ev) ==
  IF ~ev.hasBody \/ ~ev.contentType.present \/ ~ev.contentType.multipart
  THEN NullFile
  ELSE IF ev.contentType.boundary = ""
  THEN NullFile
  ELSE ScanParts(ev.parts)

\* the size check written with >= : the maximum itself would be rejected
TooLarge_inclusive(len) == len >= MAX_UPLOAD_FILE_SIZE_BYTES

\* file.length > MAX_UPLOAD_FILE_SIZE_BYTES
TooLarge(len) == len > MAX_UPLOAD_FILE_SIZE_BYTES

\* the extension check dropped
IsExcel_any(filename) == TRUE

\* filename.toLowerCase().endsWith(".xlsx")
IsExcel(filename) == endsWith(toLowerCase(filename), DotXlsx)

(***************************************************************************)
(* Process environment and caught errors                                   *)
(***************************************************************************)
\* env.LIBREOFFICE_PATH is not set
Undefined == "undefined"

\* the values env.LIBREOFFICE_PATH may have when the module is loaded
EnvValues == {Undefined, "libreoffice24.8", "/opt/libreoffice/program/soffice"}

\* the module never throwing at load
ModuleThrows_never(path) == FALSE

\* if (libreofficePath === undefined) throw new Error(...)
ModuleThrows(path) == path = Undefined

NoError == ""

\* errors a stage may throw
ErrorsAt(stage) ==
  CASE stage = "parse" ->
         {"TypeError: Cannot read properties of null (reading 'content-type')"}
    [] stage = "write" ->
         {"Error: ENOSPC: no space left on device, write",
          "Error: EACCES: permission denied, open '/tmp/document.xlsx'"}
    [] stage = "normalize" ->
         {"Error: Can't find end of central directory : is this a zip file ?",
          "Error: EIO: i/o error, read"}
    [] stage = "convert" ->
         {"Error: Command failed: libreoffice24.8 --headless --convert-to pdf",
          "Error: spawn libreoffice24.8 ENOENT"}
    [] stage = "read" ->
         {"Error: ENOENT: no such file or directory, open '/tmp/document.pdf'",
          "Error: EIO: i/o error, read"}

\* the catch block of handleFileUpload printing the caught error on the page
UploadCatchFor_leak(error) == HtmlResponse(500, error)

\* the catch block of handleFileUpload for the caught error: the error goes
\* to console.error, the response does not depend on it
UploadCatchFor(error) == UploadCatch

\* the catch block of returnPdfFile for the caught error
ReturnPdfCatchFor(error) == ReturnPdfCatch

(***************************************************************************)
(* scaleExcelFile on a workbook, sheet by sheet                            *)
(***************************************************************************)
\* number of worksheets of a workbook
MaxSheets == 2

\* number of times scaleExcelFile is applied to one path
MaxScaleRuns == 2

Paths == {"/tmp/document.xlsx", "/tmp/other.xlsx"}

\* worksheet.pageSetup, the attributes of the print layout
PageSetups == [fitToPage : BOOLEAN, fitToHeight : 0..1]

Workbooks == UNION {[1..n -> PageSetups] : n \in 0..MaxSheets}

\* a file holding the workbook wb
XlsxFile(wb) == [parsable |-> TRUE, sheets |-> wb]

\* a file Excel.Workbook cannot parse
Corrupt == [parsable |-> FALSE, sheets |-> <<>>]

XlsxFiles == {XlsxFile(wb) : wb \in Workbooks} \cup {Corrupt}

\* the page set to fit one page in height
ScalePageSetup_onePage(ps) == [ps EXCEPT !.fitToPage = TRUE, !.fitToHeight = 1]

\* the flag flipped instead of set
ScalePageSetup_toggle(ps) ==
  [ps EXCEPT !.fitToPage = ~ps.fitToPage, !.fitToHeight = 0]

\* the body of the eachSheet callback
ScalePageSetup(ps) == [ps EXCEPT !.fitToPage = TRUE, !.fitToHeight = 0]

\* workbook.eachSheet(...)
ScaleSheets(wb) == [i \in 1..Len(wb) |-> ScalePageSetup(wb[i])]

\* createWriteStream(filePath): the path the workbook is written to
WritePath(filePath) == filePath

\* the extension looked at before the size
Validate_extensionFirst(parsed) ==
  IF parsed.file.isNull THEN HtmlResponse(400, MsgNoFile)
  ELSE IF ~IsExcel(parsed.filename) THEN HtmlResponse(400, MsgInvalidFormat)
  ELSE IF TooLarge(parsed.file.len) THEN HtmlResponse(413, MsgTooLarge)
  ELSE NoResponse

\* the three validation returns of handleFileUpload, in their order;
\* NoResponse when the upload passes them all
Validate(parsed) ==
  IF parsed.file.isNull THEN HtmlResponse(400, MsgNoFile)
  ELSE IF TooLarge(parsed.file.len) THEN HtmlResponse(413, MsgTooLarge)
  ELSE IF ~IsExcel(parsed.filename) THEN HtmlResponse(400, MsgInvalidFormat)
  ELSE NoResponse

\* every method but GET handed to handleFileUpload
Route_uploadUnlessGet(method) ==
  IF method = "GET" THEN "form" ELSE "upload"

\* every request with a method handed to handleFileUpload
Route_uploadAlways(method) == "upload"

\* the branch of handler an httpMethod takes
Route(method) ==
  IF method = "GET" THEN "form"
  ELSE IF method = "POST" THEN "upload"
  ELSE "notAllowed"

\* the command of a conversion naming the input after the upload
Command_uploadName(path, name) ==
  <<path, "--headless", "--convert-to", "pdf", "--outdir", "/tmp", "/tmp/">>
    \o name

\* the template literal handed to execAsync, word by word
Command(path, name) ==
  <<path, "--headless", "--convert-to", "pdf", "--outdir", "/tmp",
    "/tmp/document.xlsx">>

(***************************************************************************)
(* parseMultipartFormData on the bytes of a body.  Strings are sequences   *)
(* of code points, buffers are sequences of bytes.                         *)
(***************************************************************************)
MaxBytes == 3

\* bytes an uploaded file is made of here: A, CR, LF, -, X, the two bytes
\* of a two-byte UTF-8 sequence (C3 A9) and FF, which no UTF-8 text holds
ByteAlphabet == {65, 13, 10, 45, 88, 195, 169, 255}

RECURSIVE BytesUpTo(_)
BytesUpTo(n) ==
  IF n = 0 THEN {<<>>}
  ELSE LET shorter == BytesUpTo(n - 1)
       IN shorter \cup {Append(b, x) : b \in {c \in shorter : Len(c) = n - 1},
                                       x \in ByteAlphabet}

CRLF == <<13, 10>>

\* the boundary parameter of the content type, and '--' before it
BoundaryText == <<88>>
Delimiter == <<45, 45>> \o BoundaryText

\* name="uploaded_file"
NameUploadedFile ==
  <<110, 97, 109, 101, 61, 34, 117, 112, 108, 111, 97, 100, 101, 100, 95,
    102, 105, 108, 101, 34>>

\* the bytes of a multipart body whose only part is the file field with
\* the given content; the Content-Disposition line is written down to the
\* parameter the parser looks for
MultipartBody(content) ==
  Delimiter \o CRLF \o NameUploadedFile \o CRLF \o CRLF
    \o content \o CRLF \o Delimiter \o <<45, 45>> \o CRLF

\* the replacement character U+FFFD
Replacement == 65533

RECURSIVE toString(_)
\* bodyBuffer.toString(): UTF-8 decoding; a byte that starts or continues no
\* valid sequence becomes U+FFFD.  Lead bytes of three- and four-byte
\* sequences (E0..F4) are not among the inputs and have no case.
toString(bytes) ==
  IF bytes = <<>> THEN <<>>
  ELSE LET b == Head(bytes)
       IN CASE b < 128 -> <<b>> \o toString(Tail(bytes))
            [] b \in 194..223 ->
                 IF Len(bytes) >= 2 /\ bytes[2] \in 128..191
                 THEN <<(b - 192) * 64 + (bytes[2] - 128)>>
                        \o toString(Tail(Tail(bytes)))
                 ELSE <<Replacement>> \o toString(Tail(bytes))
            [] b \in (128..193) \cup (245..255) ->
                 <<Replacement>> \o toString(Tail(bytes))

\* str.indexOf(text): the first position, counted from 0, or -1
indexOf(str, text) ==
  LET At(i) == \A j \in 1..Len(text) : str[i + j] = text[j]
      hits == {i \in 0..(Len(str) - Len(text)) : At(i)}
  IN IF hits = {} THEN -1
     ELSE CHOOSE i \in hits : \A k \in hits : i <= k

\* str.includes(text)
includes(str, text) == indexOf(str, text) # -1

\* str.substring(start)
substring(str, start) == SubSeq(str, start + 1, Len(str))

RECURSIVE split(_, _)
\* str.split(separator)
split(str, separator) ==
  LET i == indexOf(str, separator)
  IN IF i = -1 THEN <<str>>
     ELSE <<SubSeq(str, 1, i)>>
            \o split(substring(str, i + Len(separator)), separator)

\* Buffer.from(str, "binary"): the low byte of every UTF-16 code unit
BufferFromBinary(str) == [i \in 1..Len(str) |-> str[i] % 256]

NullBuffer == [isNull |-> TRUE, bytes |-> <<>>]

RECURSIVE ScanText(_)
\* the for loop of parseMultipartFormData over the split text
ScanText(parts) ==
  IF parts = <<>> THEN NullBuffer
  ELSE LET part == Head(parts)
           contentStart == indexOf(part, CRLF \o CRLF)
       IN IF includes(part, NameUploadedFile) /\ contentStart # -1
          THEN [isNull |-> FALSE,
                bytes |-> BufferFromBinary(substring(part, contentStart + 4))]
          ELSE ScanText(Tail(parts))

\* the file parseMultipartFormData returns for the bytes of a body sent with
\* content type multipart/form-data; boundary=X
ParseFile(bodyBuffer) == ScanText(split(toString(bodyBuffer), Delimiter))

(***************************************************************************)
(* State                                                                   *)
(***************************************************************************)
VARIABLES
  pc,          \* pc[r]: where invocation r of handler stands
  event,       \* event[r]: the APIGatewayProxyEvent of invocation r
  rid,         \* rid[r]: serial number of the request slot r is serving
  filename,    \* filename[r]: the local `filename` of handleFileUpload
  workbook,    \* workbook[r]: the Excel.Workbook of scaleExcelFile
  convIn,      \* convIn[r]: what the converter subprocess of r loaded
  exitStatus,  \* exitStatus[r]: how the converter subprocess of r ended
  pdfBuffer,   \* pdfBuffer[r]: the local `pdfBuffer` of returnPdfFile
  resp,        \* resp[r]: the APIGatewayProxyResult handler resolved with
  trace,       \* trace[r]: the stages invocation r executed, in order
  failed,      \* failed[r]: the stage whose failure ended invocation r
  logged,      \* logged[r]: the error invocation r gave to console.error
  xlsx,        \* content of /tmp/document.xlsx (STARTING_FILE_PATH)
  pdf,         \* content of /tmp/document.pdf (ENDING_FILE_PATH)
  served,      \* number of requests this execution instance has received
  convCount,   \* convCount[k]: converter runs started on upload content k
  commands,    \* the commands execAsync was called with on this instance
  libreofficePath,  \* the module constant libreofficePath
  moduleState, \* "ready" when the module loaded, "crashed" when it threw
  files,       \* files[p]: the workbook stored at path p
  before,      \* the files when the running scaleExcelFile was called
  scalePath,   \* the argument filePath of scaleExcelFile
  scaleWb,     \* the workbook scaleExcelFile has read
  scalePc,     \* where the call of scaleExcelFile stands
  scaleRuns,   \* scaleRuns[p]: completed calls of scaleExcelFile on p
  upload,      \* the content bytes of the file field the client sent
  bodyBuffer,  \* the local `bodyBuffer` of parseMultipartFormData
  fileBuffer,  \* the `file` parseMultipartFormData returned
  stagedBytes, \* the bytes writeFile put at STARTING_FILE_PATH
  parsePc      \* where the byte-level run of the upload stands

envVars == <<libreofficePath, moduleState>>

scaleVars == <<files, before, scalePath, scaleWb, scalePc, scaleRuns>>

parseVars == <<upload, bodyBuffer, fileBuffer, stagedBytes, parsePc>>

handlerVars ==
  <<pc, event, rid, filename, workbook, convIn, exitStatus, pdfBuffer, resp,
    trace, failed, logged, xlsx, pdf, served, convCount, commands>>

vars == <<handlerVars, envVars, scaleVars, parseVars>>

\* the content of an upload: its bytes, which fix its length
ContentKeys == (Contents \cup {MentionText}) \X (Lengths \cup {22})

ContentKey(part) == <<part.bytes, part.len>>

\* the handler state of a freshly loaded module
HandlerInit ==
  /\ pc = [r \in Slots |-> "idle"]
  /\ event = [r \in Slots |-> NoEvent]
  /\ rid = [r \in Slots |-> 0]
  /\ filename = [r \in Slots |-> <<>>]
  /\ workbook = [r \in Slots |-> NoFile]
  /\ convIn = [r \in Slots |-> NoFile]
  /\ exitStatus = [r \in Slots |-> "none"]
  /\ pdfBuffer = [r \in Slots |-> NoFile]
  /\ resp = [r \in Slots |-> NoResponse]
  /\ trace = [r \in Slots |-> <<>>]
  /\ failed = [r \in Slots |-> "none"]
  /\ logged = [r \in Slots |-> NoError]
  /\ xlsx = NoFile
  /\ pdf = NoFile
  /\ served = 0
  /\ convCount = [k \in ContentKeys |-> 0]
  /\ commands = {}

\* no call of scaleExcelFile is followed sheet by sheet
ScaleOff ==
  /\ files = [p \in Paths |-> Corrupt]
  /\ before = [p \in Paths |-> Corrupt]
  /\ scalePath = ""
  /\ scaleWb = <<>>
  /\ scalePc = "off"
  /\ scaleRuns = [p \in Paths |-> 0]

\* no upload is followed byte by byte
ParseOff ==
  /\ upload = <<>>
  /\ bodyBuffer = <<>>
  /\ fileBuffer = NullBuffer
  /\ stagedBytes = <<>>
  /\ parsePc = "off"

\* the module is loaded with or without LIBREOFFICE_PATH in the environment
Init ==
  /\ ParseOff
  /\ HandlerInit
  /\ libreofficePath \in EnvValues
  /\ moduleState = IF ModuleThrows(libreofficePath) THEN "crashed" ELSE "ready"
  /\ ScaleOff

\* no invocation is in flight
Quiescent == \A r \in Slots : pc[r] = "idle"

(***************************************************************************)
(* File contents                                                           *)
(***************************************************************************)
\* what writeFile(STARTING_FILE_PATH, file) leaves on disk for request id
Staged(id) == [exists |-> TRUE, src |-> id, normalized |-> FALSE]

\* the workbook written back as it was read
Normalized_unscaled(wb) == wb

\* what workbook.xlsx.write leaves on disk after the eachSheet loop
Normalized(wb) == [wb EXCEPT !.normalized = TRUE]

\* the PDF the converter subprocess of request id writes for its input
Converted(input, id) ==
  [exists |-> TRUE, src |-> input.src, normalized |-> input.normalized, by |-> id]

\* the exit status of the subprocess ignored
AfterExec_ignoreStatus(outcome) == "read"

\* a failed conversion run again
AfterExec_retry(outcome) == IF outcome = "fail" THEN "exec" ELSE "read"

\* where handleFileUpload continues when execAsync settles: a non-zero exit
\* rejects the promise, an exit with status zero resolves it
AfterExec(outcome) == IF outcome = "fail" THEN "catch" ELSE "read"

(***************************************************************************)
(* handler                                                                 *)
(***************************************************************************)
\* invocation r resolves with response rs
Resolve(r, rs) ==
  /\ resp' = [resp EXCEPT ![r] = rs]
  /\ pc' = [pc EXCEPT ![r] = "done"]

\* the error of a failed normalization logged and the request carried on
Throw_carryOn(r, stage) ==
  /\ \E error \in ErrorsAt(stage) : logged' = [logged EXCEPT ![r] = error]
  /\ failed' = [failed EXCEPT ![r] = stage]
  /\ IF stage = "normalize"
     THEN /\ pc' = [pc EXCEPT ![r] = "exec"]
          /\ UNCHANGED resp
     ELSE Resolve(r, UploadCatch)

\* a stage of invocation r throws inside the try block of handleFileUpload
Throw(r, stage) ==
  /\ \E error \in ErrorsAt(stage) :
       /\ logged' = [logged EXCEPT ![r] = error]
       /\ Resolve(r, UploadCatchFor(error))
  /\ failed' = [failed EXCEPT ![r] = stage]

\* readFile or stat throws inside the try block of returnPdfFile
ThrowInReturnPdf(r) ==
  /\ \E error \in ErrorsAt("read") :
       /\ logged' = [logged EXCEPT ![r] = error]
       /\ Resolve(r, ReturnPdfCatchFor(error))
  /\ failed' = [failed EXCEPT ![r] = "read"]

\* handler(event): GET and unsupported methods are answered at once, a POST
\* enters handleFileUpload and waits for parseMultipartFormData.  Nothing
\* thrown below escapes the try blocks of handleFileUpload and returnPdfFile,
\* so the catch block of handler (500, MsgInternal) is never entered.  A
\* module that threw at load exports no handler.
StartWith(r, evs) ==
  /\ moduleState = "ready"
  /\ pc[r] = "idle"
  /\ served < MaxRequests
  /\ \E ev \in evs :
       /\ event' = [event EXCEPT ![r] = ev]
       /\ IF Route(ev.httpMethod) = "form"
          THEN Resolve(r, HtmlResponse(200, ""))
          ELSE IF Route(ev.httpMethod) = "upload"
          THEN /\ pc' = [pc EXCEPT ![r] = "upload"]
               /\ UNCHANGED resp
          ELSE Resolve(r, HtmlResponse(405, MsgMethodNotAllowed))
  /\ served' = served + 1
  /\ rid' = [rid EXCEPT ![r] = served + 1]
  /\ UNCHANGED <<filename, workbook, convIn, exitStatus, pdfBuffer, trace,
                 failed, logged, xlsx, pdf, convCount>>
  /\ UNCHANGED <<envVars, scaleVars, parseVars, commands>>

\* the execution instance is handed a request only when it is free
Start(r) == Quiescent /\ StartWith(r, Events)

StartConc(r) == StartWith(r, ConcEvents)

\* the content of the file buffer handleFileUpload staged for invocation r
UploadedContent(r) ==
  LET RECURSIVE Find(_)
      Find(parts) ==
        IF IsFilePart(Head(parts)) /\ Head(parts).sep
        THEN ContentKey(Head(parts))
        ELSE Find(Tail(parts))
  IN Find(event[r].parts)

\* a PDF converted earlier from the same bytes served again
AfterValidation_cacheHit(r) ==
  IF convCount[UploadedContent(r)] > 0 /\ pdf.exists THEN "read" ELSE "write"

\* where handleFileUpload continues with a validated upload: the file is
\* staged and converted, whatever was converted before
AfterValidation(r) == "write"

\* handleFileUpload from the parse to the call of writeFile
HandleFileUpload(r) ==
  /\ pc[r] = "upload"
  /\ IF ParseThrows(event[r])
     THEN /\ Throw(r, "parse")
          /\ UNCHANGED filename
     ELSE LET parsed == parseMultipartFormData(event[r])
          IN IF Validate(parsed) # NoResponse
             THEN /\ Resolve(r, Validate(parsed))
                  /\ UNCHANGED <<filename, failed, logged>>
             ELSE /\ pc' = [pc EXCEPT ![r] = AfterValidation(r)]
                  /\ filename' = [filename EXCEPT ![r] = parsed.filename]
                  /\ UNCHANGED <<resp, failed, logged>>
  /\ UNCHANGED <<event, rid, workbook, convIn, exitStatus, pdfBuffer, trace,
                 xlsx, pdf, served, convCount>>
  /\ UNCHANGED <<envVars, scaleVars, parseVars, commands>>

\* await writeFile(STARTING_FILE_PATH, file)
StageWrite(r) ==
  /\ pc[r] = "write"
  /\ trace' = [trace EXCEPT ![r] = Append(@, "write")]
  /\ \E ok \in BOOLEAN :
       IF ok
       THEN /\ xlsx' = Staged(rid[r])
            /\ pc' = [pc EXCEPT ![r] = "scale_read"]
            /\ UNCHANGED <<resp, failed, logged>>
       ELSE /\ Throw(r, "write")
            /\ UNCHANGED xlsx
  /\ UNCHANGED <<event, rid, filename, workbook, convIn, exitStatus, pdfBuffer,
                 pdf, served, convCount>>
  /\ UNCHANGED <<envVars, scaleVars, parseVars, commands>>

\* scaleExcelFile: await workbook.xlsx.read(createReadStream(filePath))
NormalizeRead(r) ==
  /\ pc[r] = "scale_read"
  /\ trace' = [trace EXCEPT ![r] = Append(@, "normalize")]
  /\ \E ok \in BOOLEAN :
       IF ok /\ xlsx.exists
       THEN /\ workbook' = [workbook EXCEPT ![r] = xlsx]
            /\ pc' = [pc EXCEPT ![r] = "scale_write"]
            /\ UNCHANGED <<resp, failed, logged>>
       ELSE /\ Throw(r, "normalize")
            /\ UNCHANGED workbook
  /\ UNCHANGED <<event, rid, filename, convIn, exitStatus, pdfBuffer, xlsx,
                 pdf, served, convCount>>
  /\ UNCHANGED <<envVars, scaleVars, parseVars, commands>>

\* scaleExcelFile: the eachSheet loop and
\* await workbook.xlsx.write(createWriteStream(filePath))
NormalizeWrite(r) ==
  /\ pc[r] = "scale_write"
  /\ \E ok \in BOOLEAN :
       IF ok
       THEN /\ xlsx' = Normalized(workbook[r])
            /\ pc' = [pc EXCEPT ![r] = "exec"]
            /\ UNCHANGED <<resp, failed, logged>>
       ELSE /\ Throw(r, "normalize")
            /\ UNCHANGED xlsx
  /\ UNCHANGED <<event, rid, filename, workbook, convIn, exitStatus, pdfBuffer,
                 trace, pdf, served, convCount>>
  /\ UNCHANGED <<envVars, scaleVars, parseVars, commands>>

\* execAsync(...): the subprocess is spawned and loads STARTING_FILE_PATH
ConverterRun(r) ==
  /\ pc[r] = "exec"
  /\ trace' = [trace EXCEPT ![r] = Append(@, "convert")]
  /\ convIn' = [convIn EXCEPT ![r] = xlsx]
  /\ convCount' = [convCount EXCEPT ![UploadedContent(r)] = @ + 1]
  /\ commands' = commands \cup {Command(libreofficePath, filename[r])}
  /\ pc' = [pc EXCEPT ![r] = "exec_wait"]
  /\ UNCHANGED <<event, rid, filename, workbook, exitStatus, pdfBuffer, resp,
                 failed, logged, xlsx, pdf, served>>
  /\ UNCHANGED <<envVars, scaleVars, parseVars>>

\* the subprocess exits: with status zero and the PDF written, with status
\* zero and nothing written, or with a non-zero status
ExecExit(r) ==
  /\ pc[r] = "exec_wait"
  /\ \E outcome \in {"ok", "nooutput", "fail"} :
       /\ exitStatus' = [exitStatus EXCEPT ![r] = outcome]
       /\ pdf' = IF outcome = "ok" THEN Converted(convIn[r], rid[r]) ELSE pdf
       /\ IF AfterExec(outcome) = "catch"
          THEN Throw(r, "convert")
          ELSE /\ pc' = [pc EXCEPT ![r] = AfterExec(outcome)]
               /\ UNCHANGED <<resp, failed, logged>>
  /\ UNCHANGED <<event, rid, filename, workbook, convIn, pdfBuffer, trace,
                 xlsx, served, convCount>>
  /\ UNCHANGED <<envVars, scaleVars, parseVars, commands>>

\* returnPdfFile: await readFile(filePath)
ReadPdf(r) ==
  /\ pc[r] = "read"
  /\ trace' = [trace EXCEPT ![r] = Append(@, "read")]
  /\ \E ok \in BOOLEAN :
       IF ok /\ pdf.exists
       THEN /\ pdfBuffer' = [pdfBuffer EXCEPT ![r] = pdf]
            /\ pc' = [pc EXCEPT ![r] = "stat"]
            /\ UNCHANGED <<resp, failed, logged>>
       ELSE /\ ThrowInReturnPdf(r)
            /\ UNCHANGED pdfBuffer
  /\ UNCHANGED <<event, rid, filename, workbook, convIn, exitStatus, xlsx,
                 pdf, served, convCount>>
  /\ UNCHANGED <<envVars, scaleVars, parseVars, commands>>

\* returnPdfFile: await stat(filePath) and the response
StatPdf(r) ==
  /\ pc[r] = "stat"
  /\ \E ok \in BOOLEAN :
       IF ok /\ pdf.exists
       THEN /\ Resolve(r, PdfResponse(pdfBuffer[r], pdf, filename[r]))
            /\ UNCHANGED <<failed, logged>>
       ELSE ThrowInReturnPdf(r)
  /\ UNCHANGED <<event, rid, filename, workbook, convIn, exitStatus, pdfBuffer,
                 trace, xlsx, pdf, served, convCount>>
  /\ UNCHANGED <<envVars, scaleVars, parseVars, commands>>

\* the runtime has delivered the response; the slot takes the next request
Return(r) ==
  /\ pc[r] = "done"
  /\ pc' = [pc EXCEPT ![r] = "idle"]
  /\ event' = [event EXCEPT ![r] = NoEvent]
  /\ rid' = [rid EXCEPT ![r] = 0]
  /\ filename' = [filename EXCEPT ![r] = <<>>]
  /\ workbook' = [workbook EXCEPT ![r] = NoFile]
  /\ convIn' = [convIn EXCEPT ![r] = NoFile]
  /\ exitStatus' = [exitStatus EXCEPT ![r] = "none"]
  /\ pdfBuffer' = [pdfBuffer EXCEPT ![r] = NoFile]
  /\ resp' = [resp EXCEPT ![r] = NoResponse]
  /\ trace' = [trace EXCEPT ![r] = <<>>]
  /\ failed' = [failed EXCEPT ![r] = "none"]
  /\ logged' = [logged EXCEPT ![r] = NoError]
  /\ UNCHANGED <<xlsx, pdf, served, convCount>>
  /\ UNCHANGED <<envVars, scaleVars, parseVars, commands>>

\* the steps of an invocation after handler was entered
Step(r) ==
  \/ HandleFileUpload(r)
  \/ StageWrite(r)
  \/ NormalizeRead(r)
  \/ NormalizeWrite(r)
  \/ ConverterRun(r)
  \/ ExecExit(r)
  \/ ReadPdf(r)
  \/ StatPdf(r)
  \/ Return(r)

\* one request at a time per execution instance
Next == \E r \in Slots : Start(r) \/ Step(r)

Spec == Init /\ [][Next]_vars

\* two invocations interleave at their await points
NextConc == \E r \in Slots : StartConc(r) \/ Step(r)

SpecConc == Init /\ [][NextConc]_vars

\* the event loop runs every continuation that is ready and file operations
\* settle; nothing makes the converter subprocess exit
HandlerFairness ==
  \A r \in Slots :
    /\ WF_vars(HandleFileUpload(r))
    /\ WF_vars(StageWrite(r))
    /\ WF_vars(NormalizeRead(r))
    /\ WF_vars(NormalizeWrite(r))
    /\ WF_vars(ConverterRun(r))
    /\ WF_vars(ReadPdf(r))
    /\ WF_vars(StatPdf(r))
    /\ WF_vars(Return(r))

SpecFair == Init /\ [][Next]_vars /\ HandlerFairness

TypeOK ==
  /\ served \in 0..MaxRequests
  /\ \A r \in Slots : pc[r] \in {"idle", "upload", "write", "scale_read",
                                 "scale_write", "exec", "exec_wait", "read",
                                 "stat", "done"}

(***************************************************************************)
(* scaleExcelFile applied to files of every shape                          *)
(***************************************************************************)
\* the files scaleExcelFile may find, none of them touched yet
InitScale ==
  /\ ParseOff
  /\ HandlerInit
  /\ libreofficePath = "libreoffice24.8"
  /\ moduleState = "ready"
  /\ files \in [Paths -> XlsxFiles]
  /\ before = files
  /\ scalePath = ""
  /\ scaleWb = <<>>
  /\ scalePc = "idle"
  /\ scaleRuns = [p \in Paths |-> 0]

\* scaleExcelFile(filePath) is called
ScaleCall(filePath) ==
  /\ scalePc \in {"idle", "done", "thrown"}
  /\ scaleRuns[filePath] < MaxScaleRuns
  /\ scalePath' = filePath
  /\ before' = files
  /\ scaleWb' = <<>>
  /\ scalePc' = "reading"
  /\ UNCHANGED <<files, scaleRuns>>
  /\ UNCHANGED <<handlerVars, envVars, parseVars>>

\* await workbook.xlsx.read(createReadStream(filePath))
ScaleRead ==
  /\ scalePc = "reading"
  /\ IF ~files[scalePath].parsable
     THEN /\ scalePc' = "thrown"
          /\ UNCHANGED scaleWb
     ELSE /\ scaleWb' = files[scalePath].sheets
          /\ scalePc' = "loaded"
  /\ UNCHANGED <<files, before, scalePath, scaleRuns>>
  /\ UNCHANGED <<handlerVars, envVars, parseVars>>

\* the eachSheet loop and await workbook.xlsx.write(createWriteStream(filePath))
ScaleWrite ==
  /\ scalePc = "loaded"
  /\ files' = [files EXCEPT ![WritePath(scalePath)] = XlsxFile(ScaleSheets(scaleWb))]
  /\ scaleRuns' = [scaleRuns EXCEPT ![scalePath] = @ + 1]
  /\ scalePc' = "done"
  /\ UNCHANGED <<before, scalePath, scaleWb>>
  /\ UNCHANGED <<handlerVars, envVars, parseVars>>

NextScale == (\E filePath \in Paths : ScaleCall(filePath)) \/ ScaleRead \/ ScaleWrite

SpecScale == InitScale /\ [][NextScale]_vars

(***************************************************************************)
(* The upload followed byte by byte: from the body to the staged file      *)
(***************************************************************************)
\* the event of a POST whose body holds one file field of at most MaxBytes
\* bytes; bodyBuffer is what Buffer.from makes of event.body
InitParse ==
  /\ HandlerInit
  /\ libreofficePath = "libreoffice24.8"
  /\ moduleState = "ready"
  /\ ScaleOff
  /\ upload \in BytesUpTo(MaxBytes)
  /\ bodyBuffer = MultipartBody(upload)
  /\ fileBuffer = NullBuffer
  /\ stagedBytes = <<>>
  /\ parsePc = "received"

\* const { file, filename } = await parseMultipartFormData(event)
ParseBody ==
  /\ parsePc = "received"
  /\ fileBuffer' = ParseFile(bodyBuffer)
  /\ parsePc' = "parsed"
  /\ UNCHANGED <<upload, bodyBuffer, stagedBytes>>
  /\ UNCHANGED <<handlerVars, envVars, scaleVars>>

\* the validation of a file of a few bytes named document.xlsx, which
\* passes, and await writeFile(STARTING_FILE_PATH, file)
StageBytes ==
  /\ parsePc = "parsed"
  /\ IF fileBuffer.isNull
     THEN /\ parsePc' = "rejected"
          /\ UNCHANGED stagedBytes
     ELSE /\ stagedBytes' = fileBuffer.bytes
          /\ parsePc' = "staged"
  /\ UNCHANGED <<upload, bodyBuffer, fileBuffer>>
  /\ UNCHANGED <<handlerVars, envVars, scaleVars>>

NextParse == ParseBody \/ StageBytes

SpecParse == InitParse /\ [][NextParse]_vars

(***************************************************************************)
(* Vocabulary of the properties.  The classes of inputs are written out    *)
(* from the events, independently of the operators of the handler.         *)
(***************************************************************************)
\* invocation r is past the validation of handleFileUpload
Validated(r) == pc[r] \notin {"idle", "upload"}

\* invocation r reached the staging write
Staging(r) == pc[r] = "write" \/ Len(trace[r]) > 0

\* the POST of invocation r is a well-formed multipart body with one file part
SoleFilePart(r) ==
  /\ event[r].httpMethod = "POST"
  /\ event[r].hasHeaders /\ event[r].hasBody
  /\ event[r].contentType = CT_Multipart
  /\ Len(event[r].parts) = 1
  /\ event[r].parts[1].name = "uploaded_file"
  /\ event[r].parts[1].sep

UploadOf(r) == event[r].parts[1]

\* declared names that carry the spreadsheet suffix / that do not
SuffixedNames == {F_report_xlsx, F_Q1_XLSX}
UnsuffixedNames == {F_report_xls, F_xlsx_txt}

IsPdfResponse(rs) ==
  /\ rs.statusCode = 200
  /\ rs.contentType = "application/pdf"

InvalidFormatPage ==
  [statusCode |-> 400, contentType |-> "text/html",
   body |-> [page |-> "main",
             error |-> "Invalid file format. Please upload an Excel (.xlsx) file."]]

OversizePage ==
  [statusCode |-> 413, contentType |-> "text/html",
   body |-> [page |-> "main", error |-> "File size exceeds 18MB limit."]]

ProcessFailedPage ==
  [statusCode |-> 500, contentType |-> "text/html",
   body |-> [page |-> "main", error |-> "Failed to process file."]]

(***************************************************************************)
(* C1                                                                      *)
(***************************************************************************)
\* C1: format gate.  An upload within the size limit whose name carries the
\* .xlsx suffix and whose declared MIME type is the spreadsheet type passes
\* validation; one whose name lacks the suffix or whose declared MIME type
\* differs is answered with the invalid-format page and is never staged.
C1_FormatGate ==
  \A r \in Slots :
    (Validated(r) /\ SoleFilePart(r)
       /\ UploadOf(r).filename # NoFilename
       /\ UploadOf(r).len <= 18000000)
    => /\ (UploadOf(r).filename \in SuffixedNames /\ UploadOf(r).mime = XlsxMime)
            => Staging(r)
       /\ (UploadOf(r).filename \in UnsuffixedNames \/ UploadOf(r).mime # XlsxMime)
            => /\ pc[r] = "done"
               /\ resp[r] = InvalidFormatPage
               /\ trace[r] = <<>>

(***************************************************************************)
(* C2                                                                      *)
(***************************************************************************)
\* C2: size boundary.  A parsed file of exactly 18,000,000 bytes is not
\* answered 413 and is decided by the format check (rejected as invalid
\* format or staged); one byte more is answered 413 'File size exceeds 18MB
\* limit.' and nothing is staged or converted.
C2_SizeBoundary ==
  \A r \in Slots :
    (Validated(r) /\ SoleFilePart(r) /\ UploadOf(r).filename # NoFilename)
    => /\ UploadOf(r).len = 18000000
            => /\ resp[r] # OversizePage
               /\ UploadOf(r).filename \in SuffixedNames => Staging(r)
               /\ UploadOf(r).filename \in UnsuffixedNames
                    => (pc[r] = "done" /\ resp[r] = InvalidFormatPage)
       /\ UploadOf(r).len = 18000001
            => /\ pc[r] = "done"
               /\ resp[r] = OversizePage
               /\ trace[r] = <<>>
               /\ exitStatus[r] = "none"

\* an upload of exactly the maximum size was converted and answered
C2_Witness ==
  \E r \in Slots :
    /\ pc[r] = "done" /\ SoleFilePart(r)
    /\ UploadOf(r).len = 18000000
    /\ IsPdfResponse(resp[r])

(***************************************************************************)
(* C3                                                                      *)
(***************************************************************************)
\* C3: a request whose converter exited with status zero without writing an
\* output PDF never ends in a 200 PDF response.
C3_NoOutputFails ==
  \A r \in Slots :
    (pc[r] = "done" /\ exitStatus[r] = "nooutput") => ~IsPdfResponse(resp[r])

(***************************************************************************)
(* C4                                                                      *)
(***************************************************************************)
\* C4: with requests served one at a time, the PDF of a 200 response was
\* produced by the converter run of that request from that request's upload.
C4_OwnPdf ==
  \A r \in Slots :
    (pc[r] = "done" /\ IsPdfResponse(resp[r]))
    => /\ resp[r].body.by = rid[r]
       /\ resp[r].body.src = rid[r]

(***************************************************************************)
(* C5                                                                      *)
(***************************************************************************)
\* C5: when two invocations interleave, the converter input of each request
\* and the PDF each request returns derive from that request's own upload.
C5_NoLeak ==
  \A r \in Slots :
    /\ convIn[r].exists => convIn[r].src = rid[r]
    /\ (pc[r] = "done" /\ IsPdfResponse(resp[r])) => resp[r].body.src = rid[r]

(***************************************************************************)
(* C6                                                                      *)
(***************************************************************************)
IsPost(r) == pc[r] = "done" /\ event[r].httpMethod = "POST"

IsErrorPage(rs) ==
  /\ rs.contentType = "text/html"
  /\ rs.body.page = "main"
  /\ rs.body.error # ""

HasPdfHeaders(rs) ==
  /\ IsPdfResponse(rs)
  /\ {"contentLengthOf", "contentDisposition"} \subseteq DOMAIN rs
  /\ rs.contentLengthOf.exists
  /\ rs.contentDisposition.kind = "inline"

IsLinkPage(rs) ==
  /\ rs.statusCode = 200
  /\ rs.contentType = "text/html"
  /\ rs.body.page = "link"

\* C6 as stated: every response to a POST is an HTML error page with status
\* 200 or 4xx, a 200 PDF response with Content-Length and
\* Content-Disposition, or a 200 HTML page with a signed link.
C6_Original ==
  \A r \in Slots :
    IsPost(r)
    => \/ IsErrorPage(resp[r]) /\ resp[r].statusCode \in {200} \cup 400..499
       \/ HasPdfHeaders(resp[r])
       \/ IsLinkPage(resp[r])

\* C6: every response to a POST is an HTML error page with status 200, 4xx
\* or, when a stage of the request failed, 500; or a 200 PDF response with
\* Content-Length and Content-Disposition; or a 200 HTML page with a signed
\* link.
C6_ResponseShapes ==
  \A r \in Slots :
    IsPost(r)
    => \/ IsErrorPage(resp[r]) /\ resp[r].statusCode \in {200} \cup 400..499
       \/ IsErrorPage(resp[r]) /\ resp[r].statusCode = 500 /\ failed[r] # "none"
       \/ HasPdfHeaders(resp[r])
       \/ IsLinkPage(resp[r])

\* a POST whose converter failed was answered with a 500 page
C6_Witness ==
  \E r \in Slots :
    /\ IsPost(r)
    /\ failed[r] = "convert"
    /\ resp[r].statusCode = 500

(***************************************************************************)
(* C7                                                                      *)
(***************************************************************************)
FixedMessages ==
  {"No file was uploaded or file is invalid.",
   "File size exceeds 18MB limit.",
   "Invalid file format. Please upload an Excel (.xlsx) file.",
   "Failed to process file.",
   "Failed to generate PDF file.",
   "Method not allowed",
   "Internal server error"}

\* C7: every invocation resolves with a response object, a failure of any
\* stage included, and every response other than a success is a text/html
\* page of generateMainPage carrying one of the fixed messages.
C7_FailuresCaught ==
  \A r \in Slots :
    pc[r] = "done"
    => /\ resp[r].statusCode \in {200, 400, 405, 413, 500}
       /\ failed[r] # "none" => resp[r].statusCode = 500
       /\ (resp[r].statusCode # 200 \/ failed[r] # "none")
            => /\ resp[r].contentType = "text/html"
               /\ resp[r].body.page = "main"
               /\ resp[r].body.error \in FixedMessages

\* the staging write of a request failed and the request was answered
C7_Witness ==
  \E r \in Slots :
    /\ pc[r] = "done"
    /\ failed[r] = "write"
    /\ resp[r] = ProcessFailedPage

(***************************************************************************)
(* C8                                                                      *)
(***************************************************************************)
InTrace(r, stage) == \E i \in 1..Len(trace[r]) : trace[r][i] = stage

\* C8: a 200 PDF response is given only by a request whose converter was
\* invoked and exited with status zero; after a non-zero exit the request
\* ends with the 'Failed to process file.' page and the result is not read.
C8_PdfOnlyAfterZeroExit ==
  \A r \in Slots :
    /\ (pc[r] = "done" /\ IsPdfResponse(resp[r]))
         => /\ InTrace(r, "convert")
            /\ exitStatus[r] \in {"ok", "nooutput"}
    /\ exitStatus[r] = "fail"
         => /\ pc[r] = "done"
            /\ resp[r] = ProcessFailedPage
            /\ ~InTrace(r, "read")
            /\ pdfBuffer[r] = NoFile

\* the converter of a request exited non-zero
C8_Witness ==
  \E r \in Slots :
    /\ exitStatus[r] = "fail"
    /\ pc[r] = "done"
    /\ InTrace(r, "convert")

(***************************************************************************)
(* C9                                                                      *)
(***************************************************************************)
\* events of a POST in which the parser finds no file
MissingFileEvents ==
  {Event("POST", TRUE, CT_Multipart, FALSE, <<>>),
   Event("POST", TRUE, CT_None, TRUE, <<NoSepPart>>),
   Event("POST", TRUE, CT_Text, TRUE, <<OtherPart>>),
   Event("POST", TRUE, CT_NoBoundary, TRUE, <<OtherPart>>),
   Event("POST", TRUE, CT_Multipart, TRUE, <<OtherPart>>),
   Event("POST", TRUE, CT_Multipart, TRUE, <<NoSepPart>>)}

\* events of a POST that fails validation: no file, an oversize file or a
\* file whose name lacks the suffix
InvalidUpload(ev) ==
  \/ ev \in MissingFileEvents
  \/ /\ ev.httpMethod = "POST" /\ ev.hasHeaders /\ ev.hasBody
     /\ ev.contentType = CT_Multipart
     /\ Len(ev.parts) = 1
     /\ ev.parts[1].name = "uploaded_file" /\ ev.parts[1].sep
     /\ \/ ev.parts[1].len > 18000000
        \/ ev.parts[1].filename \in UnsuffixedNames

ValidationPages ==
  {[statusCode |-> 400, contentType |-> "text/html",
    body |-> [page |-> "main",
              error |-> "No file was uploaded or file is invalid."]],
   OversizePage, InvalidFormatPage}

\* C9, the state part: a request failing validation runs no stage and ends
\* with its validation page.
C9_NoStage ==
  \A r \in Slots :
    InvalidUpload(event[r])
    => /\ pc[r] \in {"upload", "done"}
       /\ trace[r] = <<>>
       /\ workbook[r] = NoFile /\ convIn[r] = NoFile /\ exitStatus[r] = "none"
       /\ pc[r] = "done" => resp[r] \in ValidationPages

\* C9, the step part: no step of a request failing validation changes
\* /tmp/document.xlsx or /tmp/document.pdf.
C9_FilesKept ==
  \A r \in Slots :
    (InvalidUpload(event[r]) \/ InvalidUpload(event'[r]))
    => (xlsx' = xlsx /\ pdf' = pdf)

\* C9: a validation failure (missing file, oversize upload, wrong extension)
\* creates no partial state: the request returns its error page with
\* /tmp/document.xlsx and /tmp/document.pdf unchanged, and neither the
\* normalizer nor the converter runs.
C9_NoPartialState == [](C9_NoStage) /\ [][C9_FilesKept]_vars

\* a request failing validation was answered on an instance whose temp files
\* hold the result of an earlier conversion
C9_Witness ==
  \E r \in Slots :
    /\ pc[r] = "done"
    /\ InvalidUpload(event[r])
    /\ resp[r] = OversizePage
    /\ xlsx.exists /\ pdf.exists

(***************************************************************************)
(* C10                                                                     *)
(***************************************************************************)
\* C10: within one request every stage executes at most once, and the first
\* stage that fails ends the request: it is the last stage executed.
C10_NoRetry ==
  \A r \in Slots :
    /\ \A i, j \in 1..Len(trace[r]) : trace[r][i] = trace[r][j] => i = j
    /\ failed[r] # "none" => pc[r] = "done"
    /\ failed[r] = "parse" => trace[r] = <<>>
    /\ failed[r] \in {"write", "normalize", "convert", "read"}
         => /\ trace[r] # <<>>
            /\ trace[r][Len(trace[r])] = failed[r]

\* the normalization of a request failed after the staging write
C10_Witness ==
  \E r \in Slots :
    /\ pc[r] = "done"
    /\ failed[r] = "normalize"
    /\ trace[r] = <<"write", "normalize">>

(***************************************************************************)
(* C11                                                                     *)
(***************************************************************************)
StageOrder == <<"write", "normalize", "convert", "read">>

DeclaredName(r) ==
  IF UploadOf(r).filename = NoFilename
  THEN <<"d", "o", "c", "u", "m", "e", "n", "t", ".", "x", "l", "s", "x">>
  ELSE UploadOf(r).filename

\* a name cut before its last dot
WithoutFinalExtension(name) ==
  LET dots == {i \in 1..Len(name) : name[i] = "."}
      last == CHOOSE i \in dots : \A j \in dots : j <= i
  IN IF dots = {} THEN name ELSE SubSeq(name, 1, last - 1)

\* the PDF names expected of the accepted names
ExpectedPdfName ==
  [name \in {F_report_xlsx, F_Q1_XLSX, F_dot_xlsx, F_dir_Q1_xlsx, F_document_xlsx} |->
     CASE name = F_report_xlsx -> <<"r", "e", "p", "o", "r", "t", ".", "p", "d", "f">>
       [] name = F_Q1_XLSX -> <<"Q", "1", ".", "p", "d", "f">>
       [] name = F_dot_xlsx -> <<".", "x", "l", "s", "x", ".", "p", "d", "f">>
       [] name = F_dir_Q1_xlsx -> <<"Q", "1", ".", "p", "d", "f">>
       [] name = F_document_xlsx ->
            <<"d", "o", "c", "u", "m", "e", "n", "t", ".", "p", "d", "f">>]

SuccessHeaders(r) ==
  /\ resp[r].statusCode = 200
  /\ resp[r].contentType = "application/pdf"
  /\ resp[r].body.exists
  /\ resp[r].contentLengthOf = resp[r].body
  /\ resp[r].contentDisposition.kind = "inline"

C16_EverySheetScaled ==
  scalePc = "done"
  => /\ before[scalePath].parsable /\ files[scalePath].parsable
     /\ Len(files[scalePath].sheets) = Len(before[scalePath].sheets)
     /\ \A i \in 1..Len(files[scalePath].sheets) :
          /\ files[scalePath].sheets[i].fitToPage = TRUE
          /\ files[scalePath].sheets[i].fitToHeight = 0
     /\ \A p \in Paths : p # scalePath => files[p] = before[p]

\* a workbook of two sheets, neither fitted to the page, was rewritten
C16_Witness ==
  /\ scalePc = "done"
  /\ Len(before[scalePath].sheets) = 2
  /\ \A i \in 1..2 :
       before[scalePath].sheets[i] = [fitToPage |-> FALSE, fitToHeight |-> 1]

(***************************************************************************)
(* C17                                                                     *)
(***************************************************************************)
\* the print-layout attributes of the sheets of a workbook
PrintLayout(wb) ==
  [i \in 1..Len(wb) |-> <<wb[i].fitToPage, wb[i].fitToHeight>>]

\* C17: a second scaleExcelFile on a file leaves every sheet with the
\* print layout the first one left.
C17_Idempotent ==
  (scalePc = "done" /\ scaleRuns[scalePath] >= 2)
  => PrintLayout(files[scalePath].sheets) = PrintLayout(before[scalePath].sheets)

\* scaleExcelFile has run twice on a file that has a sheet
C17_Witness ==
  /\ scalePc = "done"
  /\ scaleRuns[scalePath] = 2
  /\ Len(files[scalePath].sheets) >= 1

(***************************************************************************)
(* C13                                                                     *)
(***************************************************************************)
\* C13: when the normalizer cannot parse the staged spreadsheet, the request
\* ends with an error page, the converter is never invoked for it and the
\* normalization ran once.
C13_UnparsableFails ==
  \A r \in Slots :
    (failed[r] = "normalize" /\ workbook[r] = NoFile)
    => /\ pc[r] = "done"
       /\ resp[r] = ProcessFailedPage
       /\ trace[r] = <<"write", "normalize">>
       /\ convIn[r] = NoFile
       /\ exitStatus[r] = "none"

\* the normalizer failed to parse the upload of a request
C13_Witness ==
  \E r \in Slots :
    /\ pc[r] = "done"
    /\ failed[r] = "normalize"
    /\ workbook[r] = NoFile
    /\ resp[r].statusCode = 500

(***************************************************************************)
(* C14                                                                     *)
(***************************************************************************)
\* C14: a request whose converter subprocess was started terminates even if
\* the subprocess never exits.
C14_Terminates ==
  \A r \in Slots : (pc[r] = "exec_wait") ~> (pc[r] = "done")

(***************************************************************************)
(* C15                                                                     *)
(***************************************************************************)
\* C15: when a request is answered with the oversize page, the complete
\* body was not yet in memory at the moment of the size decision.
C15_RejectBeforeBuffering ==
  [][\A r \in Slots :
       (resp[r] # OversizePage /\ resp'[r] = OversizePage) => ~event[r].hasBody]_vars

(***************************************************************************)
(* C18                                                                     *)
(***************************************************************************)
\* C18: without LIBREOFFICE_PATH the module throws at load and no request
\* is ever served; with it the module loads.
C18_StartupGate ==
  /\ libreofficePath = "undefined"
       => /\ moduleState = "crashed"
          /\ served = 0
          /\ \A r \in Slots : pc[r] = "idle" /\ resp[r] = NoResponse
  /\ libreofficePath # "undefined" => moduleState = "ready"

\* the module was loaded without LIBREOFFICE_PATH
C18_Witness ==
  /\ libreofficePath = "undefined"
  /\ moduleState = "crashed"

(***************************************************************************)
(* C19                                                                     *)
(***************************************************************************)
PdfFailedPage ==
  [statusCode |-> 500, contentType |-> "text/html",
   body |-> [page |-> "main", error |-> "Failed to generate PDF file."]]

\* C19: the response to a failed request depends on the stage that failed
\* only: whatever error was thrown, the status and body are the fixed page
\* of the stage, and the error is given to the log alone.
C19_GenericFailure ==
  \A r \in Slots :
    /\ failed[r] # "none"
         => /\ logged[r] # ""
            /\ resp[r] = IF failed[r] = "read" THEN PdfFailedPage ELSE ProcessFailedPage
            /\ resp[r].body.error # logged[r]
    /\ failed[r] = "none" => logged[r] = ""

\* the staging write failed with the second of its errors
C19_Witness ==
  \E r \in Slots :
    /\ pc[r] = "done"
    /\ failed[r] = "write"
    /\ logged[r] = "Error: EACCES: permission denied, open '/tmp/document.xlsx'"
    /\ resp[r] = ProcessFailedPage

(***************************************************************************)
(* C20                                                                     *)
(***************************************************************************)
RECURSIVE SumOver(_, _)
SumOver(f, keys) ==
  IF keys = {} THEN 0
  ELSE LET k == CHOOSE x \in keys : TRUE
       IN f[k] + SumOver(f, keys \ {k})

\* C20 as stated: the converter is invoked at most once for identical upload
\* bytes, however often they are posted.
C20_Original == \A k \in DOMAIN convCount : convCount[k] <= 1

\* C20: when identical upload bytes are posted twice, the converter is
\* invoked at most once in each request: there is no cache, and every PDF
\* response follows a converter run of its own request.
C20_OneRunPerRequest ==
  /\ SumOver(convCount, DOMAIN convCount) <= served
  /\ \A r \in Slots :
       (pc[r] = "done" /\ IsPdfResponse(resp[r]))
       => /\ InTrace(r, "convert")
          /\ exitStatus[r] # "none"

\* the same bytes were converted for a second request
C20_Witness ==
  \E r \in Slots :
    /\ pc[r] = "done" /\ SoleFilePart(r) /\ IsPdfResponse(resp[r])
    /\ convCount[<<UploadOf(r).bytes, UploadOf(r).len>>] = 2

(***************************************************************************)
(* C21                                                                     *)
(***************************************************************************)
FormPage ==
  [statusCode |-> 200, contentType |-> "text/html",
   body |-> [page |-> "main", error |-> ""]]

\* C21, the state part: a GET is answered at once with the form page, without
\* an error block, and runs no stage.
C21_GetAnswer ==
  \A r \in Slots :
    event[r].httpMethod = "GET"
    => /\ pc[r] = "done"
       /\ resp[r] = FormPage
       /\ trace[r] = <<>>
       /\ workbook[r] = NoFile /\ convIn[r] = NoFile /\ exitStatus[r] = "none"

\* C21, the step part: no step of a GET changes a temp file or starts the
\* converter.
C21_GetFrame ==
  \A r \in Slots :
    (event[r].httpMethod = "GET" \/ event'[r].httpMethod = "GET")
    => /\ xlsx' = xlsx /\ pdf' = pdf
       /\ convCount' = convCount /\ commands' = commands

\* C21: a GET always returns 200, text/html, the upload form without an error
\* block, and has no side effect on the temp files or the converter.
C21_GetIsPure == [](C21_GetAnswer) /\ [][C21_GetFrame]_vars

\* a GET carrying a file body was answered on an instance whose temp files
\* hold an earlier conversion
C21_Witness ==
  \E r \in Slots :
    /\ pc[r] = "done"
    /\ event[r].httpMethod = "GET" /\ event[r].hasBody
    /\ resp[r] = FormPage
    /\ xlsx.exists /\ pdf.exists

(***************************************************************************)
(* C24                                                                     *)
(***************************************************************************)
NoFilePage ==
  [statusCode |-> 400, contentType |-> "text/html",
   body |-> [page |-> "main",
             error |-> "No file was uploaded or file is invalid."]]

\* POSTs in which the parser has no file to find: no body, no multipart
\* content type with a boundary, or only parts that are no file field
NothingToParse(ev) ==
  /\ ev.httpMethod = "POST" /\ ev.hasHeaders
  /\ \/ ~ev.hasBody
     \/ ev.contentType # CT_Multipart
     \/ \A i \in 1..Len(ev.parts) : ev.parts[i] \in {OtherPart, NoSepPart}

MethodNotAllowedPage ==
  [statusCode |-> 405, contentType |-> "text/html",
   body |-> [page |-> "main", error |-> "Method not allowed"]]

\* C26, the state part: a request of another method than GET and POST is
\* answered at once with the 405 page; its body is never parsed and no stage
\* runs.
C26_OtherAnswer ==
  \A r \in Slots :
    (pc[r] # "idle" /\ event[r].httpMethod \notin {"GET", "POST"})
    => /\ pc[r] = "done"
       /\ resp[r] = MethodNotAllowedPage
       /\ filename[r] = <<>> /\ trace[r] = <<>>
       /\ workbook[r] = NoFile /\ convIn[r] = NoFile /\ exitStatus[r] = "none"

\* C26, the step part: no step of such a request changes a temp file or
\* starts the converter.
C26_OtherFrame ==
  \A r \in Slots :
    \/ pc'[r] = "idle"
    \/ event'[r].httpMethod \in {"GET", "POST"}
    \/ /\ xlsx' = xlsx /\ pdf' = pdf
       /\ convCount' = convCount /\ commands' = commands

\* C26: a request whose method is neither GET nor POST returns 405 with the
\* page showing 'Method not allowed', and neither parses the body nor
\* touches the temp files nor invokes the converter.
C26_MethodNotAllowed == [](C26_OtherAnswer) /\ [][C26_OtherFrame]_vars

\* a DELETE carrying a valid file body was answered 405
C26_Witness ==
  \E r \in Slots :
    /\ pc[r] = "done"
    /\ event[r].httpMethod = "DELETE" /\ event[r].hasBody
    /\ Len(event[r].parts) = 1
    /\ resp[r] = MethodNotAllowedPage

(***************************************************************************)
(* C23                                                                     *)
(***************************************************************************)
\* the one command line of an instance configured with path
FixedCommand(path) ==
  <<path, "--headless", "--convert-to", "pdf", "--outdir", "/tmp",
    "/tmp/document.xlsx">>

\* C23: every command handed to the converter on an instance is the same
\* string, made of LIBREOFFICE_PATH and the fixed /tmp paths only, whatever
\* the filename, headers and content of the requests were.
C23_FixedCommand ==
  /\ commands \subseteq {FixedCommand(libreofficePath)}
  /\ (\E k \in DOMAIN convCount : convCount[k] > 0)
       => commands = {FixedCommand(libreofficePath)}

\* uploads of two contents were converted, the second under another name
\* than the first, and one command was executed
C23_Witness ==
  \E r \in Slots :
    /\ pc[r] = "exec_wait"
    /\ filename[r] = <<"Q", "1", ".", "X", "L", "S", "X">>
    /\ convCount[<<"A", 10240>>] > 0
    /\ convCount[<<"B", 18000000>>] > 0
    /\ Cardinality(commands) = 1

(***************************************************************************)
(* C25                                                                     *)
(***************************************************************************)
\* the cases C25 lists, for a POST whose event has a headers object: the body
\* is empty, the content type is missing or not multipart/form-data, no
\* boundary parameter is present, or no part is named uploaded_file and has
\* a header/body separator
NullFileCase(ev) ==
  /\ ev.httpMethod = "POST" /\ ev.hasHeaders
  /\ \/ ~ev.hasBody
     \/ ~ev.contentType.present
     \/ ~ev.contentType.multipart
     \/ ev.contentType.boundary = ""
     \/ \A i \in 1..Len(ev.parts) :
          ~(ev.parts[i].name = "uploaded_file" /\ ev.parts[i].sep)

\* C25: in each of those cases the parser returns a null file and the POST is
\* answered with the 400 no-file page without staging anything; a part named
\* uploaded_file without a filename parameter is given the name
\* document.xlsx.
C25_NullFile ==
  \A r \in Slots :
    /\ NullFileCase(event[r])
         => /\ pc[r] \in {"upload", "done"}
            /\ trace[r] = <<>>
            /\ pc[r] = "done" => resp[r] = NoFilePage
    /\ (Validated(r) /\ SoleFilePart(r) /\ Staging(r)
          /\ UploadOf(r).filename = NoFilename)
         => filename[r] = <<"d", "o", "c", "u", "m", "e", "n", "t", ".", "x", "l", "s", "x">>

(***************************************************************************)
(* C22                                                                     *)
(***************************************************************************)
\* C22: the bytes staged at /tmp/document.xlsx are exactly the content bytes
\* of the uploaded_file part: none added, none dropped, none altered.
C22_ExactBytes ==
  parsePc = "staged" => stagedBytes = upload

====
